---- MODULE Spec2Model ----
(***************************************************************************)
(* Model of the two scripts of aws-misc:                                   *)
(*   iam_letsencrypt_sync.py        certificate synchronizer               *)
(*   s3_duplicity_auto_lifecycle.py lifecycle-rule reconciler              *)
(* Time is counted in whole days.  Strings that the code takes apart       *)
(* (object keys, filter prefixes, rule identifiers) are sequences of       *)
(* one-character strings.                                                  *)
(***************************************************************************)
EXTENDS Integers, Sequences, FiniteSets, TLC

\* ------------------------------------------------------------------------
\* Bounds
\* ------------------------------------------------------------------------
MaxNow == 1
MaxExp == 2
MaxDays == 1

\* ------------------------------------------------------------------------
\* Certificate synchronizer: data
\* ------------------------------------------------------------------------
AllNames == {"a", "b"}
NoCert == -1
ExpVals == 0..MaxExp

\* sequences without repetition over a set (scandir yields each directory once)
RECURSIVE DistinctSeqs(_)
DistinctSeqs(S) ==
    {<<>>} \cup UNION {{<<x>> \o t : t \in DistinctSeqs(S \ {x})} : x \in S}

Range(s) == {s[i] : i \in 1..Len(s)}

VARIABLES
    remote,      \* IAM store: name -> expiration, NoCert when absent
    remote0,     \* the store as it was when the current run started
    certnames,   \* letsencrypt_certnames(): valid local names, scandir order
    localExp,    \* expiration of the certificate in the local live directory
    days,        \* args.days
    force,       \* args.force
    now,         \* datetime.now(timezone.utc)
    expires,     \* the map returned by certificate_expirations()
    marker,      \* the listing response carried a Marker
    cpc,         \* position of iam_sync_certs
    idx,         \* index of the for loop over certnames
    calls,       \* delete/upload API calls made by the current run, in order
    prevCalls,   \* the calls made by the previous run
    err,         \* the exception that ended the run
    run          \* 1 for the first run, 2 for the re-run

certvars == <<remote, remote0, certnames, localExp, days, force, now, expires,
              marker, cpc, idx, calls, prevCalls, err, run>>

VARIABLES
    keys,        \* the object keys of the bucket
    policy,      \* the bucket's stored lifecycle rules
    policy0,     \* the stored rules when the current run started
    clean,       \* args.clean
    noop,        \* args.noop
    fetched,     \* the pages of CommonPrefixes fetched so far
    cursor,      \* how many prefixes of the listing were returned so far
    archives,    \* what archives_in_bucket returned
    newrules,    \* newrules of lifecycle_update
    prevRules,   \* newrules of the previous run
    putCalls,    \* calls of lifecycle.put in the current run
    lpc,         \* position of the script
    lerr,        \* the exception that ended the run
    lrun         \* 1 for the first run, 2 for the re-run

lifevars == <<keys, policy, policy0, clean, noop, fetched, cursor, archives,
              newrules, prevRules, putCalls, lpc, lerr, lrun>>

vars == <<certvars, lifevars>>

EmptyMap == [n \in AllNames |-> NoCert]

CertInit ==
    /\ remote \in [AllNames -> ExpVals \cup {NoCert}]
    /\ remote0 = remote
    /\ certnames \in DistinctSeqs(AllNames)
    /\ localExp \in [AllNames -> ExpVals]
    /\ days \in 0..MaxDays
    /\ force \in BOOLEAN
    /\ now \in 0..MaxNow
    /\ expires = EmptyMap
    /\ marker = FALSE
    /\ cpc = "list"
    /\ idx = 0
    /\ calls = <<>>
    /\ prevCalls = <<>>
    /\ err = "none"
    /\ run = 1

\* ------------------------------------------------------------------------
\* Certificate synchronizer: the decision of the loop body
\* ------------------------------------------------------------------------
\* now >= expires[certname] - timedelta(days=args.days)
ShouldReplaceStrict(exp, t, d) == t > exp - d
ShouldReplaceReversed(exp, t, d) == t <= exp - d
ShouldReplace(exp, t, d) == t >= exp - d

\* the if/elif/else of the loop body: what is done for one name
DecisionDeleteAbsent(map, n, t, d, f) ==
    IF map[n] # NoCert
    THEN IF ShouldReplace(map[n], t, d) THEN "replace"
         ELSE IF f THEN "replace" ELSE "skip"
    ELSE "replace"
Decision(map, n, t, d, f) ==
    IF map[n] # NoCert
    THEN IF ShouldReplace(map[n], t, d) THEN "replace"
         ELSE IF f THEN "replace" ELSE "skip"
    ELSE "upload"

\* "raise e" in the except clause of iam_delete_cert: the run ends
AfterDeleteErrorSwallowed == "upload"
AfterDeleteError == "aborted"

Call(o, n, k) == [op |-> o, name |-> n, ok |-> k]

\* ------------------------------------------------------------------------
\* Certificate synchronizer: actions
\* ------------------------------------------------------------------------
\* list_server_certificates answers with the whole listing in one response
ListOk ==
    /\ cpc = "list"
    /\ expires' = remote
    /\ marker' = FALSE
    /\ cpc' = "loop"
    /\ idx' = 1
    /\ UNCHANGED <<remote, remote0, certnames, localExp, days, force, now,
                   calls, prevCalls, err, run>>
    /\ UNCHANGED lifevars

\* the response is truncated and carries a Marker: the code then calls
\* list_certificates, a name that is defined nowhere, and NameError ends the run
ListPaginated ==
    /\ cpc = "list"
    /\ \E n \in AllNames : remote[n] # NoCert
    /\ marker' = TRUE
    /\ cpc' = "aborted"
    /\ err' = "NameError"
    /\ UNCHANGED <<remote, remote0, certnames, localExp, days, force, now,
                   expires, idx, calls, prevCalls, run>>
    /\ UNCHANGED lifevars

\* list_server_certificates raises: logged and re-raised
ListFail ==
    /\ cpc = "list"
    /\ cpc' = "aborted"
    /\ err' = "ApiError"
    /\ UNCHANGED <<remote, remote0, certnames, localExp, days, force, now,
                   expires, marker, idx, calls, prevCalls, run>>
    /\ UNCHANGED lifevars

InLoop == cpc = "loop" /\ idx <= Len(certnames)

SkipCert ==
    /\ InLoop
    /\ Decision(expires, certnames[idx], now, days, force) = "skip"
    /\ idx' = idx + 1
    /\ UNCHANGED <<remote, remote0, certnames, localExp, days, force, now,
                   expires, marker, cpc, calls, prevCalls, err, run>>
    /\ UNCHANGED lifevars

DeleteOk ==
    /\ InLoop
    /\ Decision(expires, certnames[idx], now, days, force) = "replace"
    /\ calls' = Append(calls, Call("delete", certnames[idx], TRUE))
    /\ remote' = [remote EXCEPT ![certnames[idx]] = NoCert]
    /\ cpc' = "upload"
    /\ UNCHANGED <<remote0, certnames, localExp, days, force, now, expires,
                   marker, idx, prevCalls, err, run>>
    /\ UNCHANGED lifevars

DeleteFail ==
    /\ InLoop
    /\ Decision(expires, certnames[idx], now, days, force) = "replace"
    /\ calls' = Append(calls, Call("delete", certnames[idx], FALSE))
    /\ cpc' = AfterDeleteError
    /\ err' = "ApiError"
    /\ UNCHANGED <<remote, remote0, certnames, localExp, days, force, now,
                   expires, marker, idx, prevCalls, run>>
    /\ UNCHANGED lifevars

AtUpload ==
    \/ cpc = "upload"
    \/ InLoop /\ Decision(expires, certnames[idx], now, days, force) = "upload"

UploadOk ==
    /\ AtUpload
    /\ calls' = Append(calls, Call("upload", certnames[idx], TRUE))
    /\ remote' = [remote EXCEPT ![certnames[idx]] = localExp[certnames[idx]]]
    /\ cpc' = "loop"
    /\ idx' = idx + 1
    /\ UNCHANGED <<remote0, certnames, localExp, days, force, now, expires,
                   marker, prevCalls, err, run>>
    /\ UNCHANGED lifevars

\* reading a local file or upload_server_certificate raises
UploadFail ==
    /\ AtUpload
    /\ calls' = Append(calls, Call("upload", certnames[idx], FALSE))
    /\ cpc' = "aborted"
    /\ err' = "ApiError"
    /\ UNCHANGED <<remote, remote0, certnames, localExp, days, force, now,
                   expires, marker, idx, prevCalls, run>>
    /\ UNCHANGED lifevars

SyncDone ==
    /\ cpc = "loop"
    /\ idx > Len(certnames)
    /\ cpc' = "done"
    /\ UNCHANGED <<remote, remote0, certnames, localExp, days, force, now,
                   expires, marker, idx, calls, prevCalls, err, run>>
    /\ UNCHANGED lifevars

\* the script is started again with the same arguments, files and clock
SyncAgain ==
    /\ cpc = "done"
    /\ run = 1
    /\ run' = 2
    /\ cpc' = "list"
    /\ idx' = 0
    /\ expires' = EmptyMap
    /\ marker' = FALSE
    /\ prevCalls' = calls
    /\ calls' = <<>>
    /\ remote0' = remote
    /\ UNCHANGED <<remote, certnames, localExp, days, force, now, err>>
    /\ UNCHANGED lifevars

CertNext ==
    \/ ListOk
    \/ ListPaginated
    \/ ListFail
    \/ SkipCert
    \/ DeleteOk
    \/ DeleteFail
    \/ UploadOk
    \/ UploadFail
    \/ SyncDone
    \/ SyncAgain

\* ------------------------------------------------------------------------
\* Lifecycle reconciler: strings
\* ------------------------------------------------------------------------
DuplicityPrefix == <<"d", "/">>       \* args.duplicity_prefix
FilePrefixArchive == <<"a", "/">>     \* args.file_prefix_archive
LifecycleIdPrefix == <<"L">>          \* args.lifecycle_id_prefix
GlacierDays == 60                     \* args.glacier_days

\* str.startswith, and the same test at an offset
StartsWithAt(s, k, p) ==
    /\ k + Len(p) - 1 <= Len(s)
    /\ SubSeq(s, k, k + Len(p) - 1) = p
StartsWith(s, p) == StartsWithAt(s, 1, p)

\* re.match('{}(.*?)/{}'.format(duplicity_prefix, file_prefix_archive), s):
\* the lengths group 1 can take; the non-greedy group takes the shortest
GroupLengths(s) ==
    {k \in 0..Len(s) :
        /\ StartsWith(s, DuplicityPrefix)
        /\ StartsWithAt(s, Len(DuplicityPrefix) + k + 1,
                        <<"/">> \o FilePrefixArchive)}
Matches(s) == GroupLengths(s) # {}
Min(S) == CHOOSE x \in S : \A y \in S : x <= y
Group1(s) ==
    SubSeq(s, Len(DuplicityPrefix) + 1,
              Len(DuplicityPrefix) + Min(GroupLengths(s)))

\* ------------------------------------------------------------------------
\* Lifecycle reconciler: the bucket listing (list_objects_v2)
\* ------------------------------------------------------------------------
Code(c) ==
    CASE c = "-" -> 45 [] c = "/" -> 47 [] c = "L" -> 76 [] c = "a" -> 97
      [] c = "d" -> 100 [] c = "f" -> 102 [] c = "g" -> 103 [] c = "m" -> 109
      [] c = "o" -> 111 [] c = "u" -> 117 [] c = "x" -> 120 [] c = "y" -> 121
      [] c = "z" -> 122

\* byte order of two keys
RECURSIVE Less(_, _)
Less(s, t) ==
    IF t = <<>> THEN FALSE
    ELSE IF s = <<>> THEN TRUE
    ELSE IF Head(s) = Head(t) THEN Less(Tail(s), Tail(t))
    ELSE Code(Head(s)) < Code(Head(t))

\* positions of the delimiter behind the prefix
DelimiterAt(key) ==
    {k \in (Len(DuplicityPrefix) + 1)..Len(key) :
        StartsWithAt(key, k, FilePrefixArchive)}
HasCommonPrefix(key) ==
    StartsWith(key, DuplicityPrefix) /\ DelimiterAt(key) # {}
CommonPrefix(key) ==
    SubSeq(key, 1, Min(DelimiterAt(key)) + Len(FilePrefixArchive) - 1)

SetToSortedSeq(S) ==
    CHOOSE q \in [1..Cardinality(S) -> S] :
        \A i, j \in 1..Cardinality(S) : i < j => Less(q[i], q[j])

\* CommonPrefixes of the whole listing, in key order, each once
Listing(ks) ==
    SetToSortedSeq({CommonPrefix(k) : k \in {x \in ks : HasCommonPrefix(x)}})

KeyPool ==
    { <<"d", "/", "x", "/", "a", "/", "f">>,
      <<"d", "/", "x", "/", "a", "/", "g">>,
      <<"d", "/", "y", "/", "a", "/", "f">>,
      <<"d", "/", "a", "/", "f">>,
      <<"o", "/", "x", "/", "a", "/", "f">> }

\* ------------------------------------------------------------------------
\* Lifecycle reconciler: rules
\* ------------------------------------------------------------------------
Rule(id, prefix, d) ==
    [ID |-> id, Prefix |-> prefix, Status |-> "Enabled",
     Days |-> d, StorageClass |-> "GLACIER"]

RulePool ==
    { Rule(<<"L", "-", "x">>, <<"d", "/", "x", "/", "a", "/">>, 30),
      Rule(<<"L", "-", "z">>, <<"d", "/", "z", "/", "a", "/">>, 60),
      Rule(<<"L", "-", "y">>, <<"o", "/">>, 60),
      Rule(<<"m">>, <<"d", "/", "x", "/", "a", "/">>, 30),
      Rule(<<"u">>, <<"o", "/">>, 30) }

MaxRules == 2

RuleLists == {q \in DistinctSeqs(RulePool) : Len(q) <= MaxRules}

\* an element of the list archives_in_bucket returns
Str(s) == [kind |-> "str", val |-> s]
List(l) == [kind |-> "list", val |-> l]

\* archives_in_bucket over the pages it fetched: the prefixes of the first
\* page, then, when the page carried a token, the list built from the rest
\* appended as ONE element (list.append of a list)
RECURSIVE ArchivesOfPages(_)
ArchivesOfPages(pages) ==
    LET own == [i \in 1..Len(pages[1]) |-> Str(pages[1][i])] IN
    IF Len(pages) = 1 THEN own
    ELSE Append(own, List(ArchivesOfPages(Tail(pages))))

\* the first loop of lifecycle_update: is an existing rule carried over
KeepRuleIgnoresClean(rule, c) ==
    IF Matches(rule.Prefix)
    THEN ~StartsWith(rule.ID, LifecycleIdPrefix)
    ELSE TRUE
KeepRuleKeepsGenerated(rule, c) ==
    IF Matches(rule.Prefix)
    THEN StartsWith(rule.ID, LifecycleIdPrefix) \/ ~c
    ELSE TRUE
KeepRule(rule, c) ==
    IF Matches(rule.Prefix)
    THEN ~StartsWith(rule.ID, LifecycleIdPrefix) /\ ~c
    ELSE TRUE

PreservedRules(rules, c) == SelectSeq(rules, LAMBDA r : KeepRule(r, c))

\* the rule the second loop builds for one archive prefix
SynthRule(archive) ==
    Rule(LifecycleIdPrefix \o <<"-">> \o Group1(archive), archive, GlacierDays)

\* re.match(...).group(1) on one element: a list is no string (TypeError),
\* a string that does not match gives None.group (AttributeError)
ParseError(a) ==
    IF a.kind = "list" THEN "TypeError"
    ELSE IF ~Matches(a.val) THEN "AttributeError"
    ELSE "none"

\* the two loops of lifecycle_update: the exception raised, if any, and newrules
LifecycleRules(rules, archs, c) ==
    LET bad == {i \in 1..Len(archs) : ParseError(archs[i]) # "none"} IN
    IF bad # {}
    THEN [error |-> ParseError(archs[Min(bad)]), rules |-> <<>>]
    ELSE [error |-> "none",
          rules |-> PreservedRules(rules, c)
                    \o [i \in 1..Len(archs) |-> SynthRule(archs[i].val)]]

\* "if(not args.noop)": is lifecycle.put called
PutIsCalledAlways(flag) == TRUE
PutIsCalled(flag) == ~flag

LifeInit ==
    /\ keys \in SUBSET KeyPool
    /\ policy \in RuleLists
    /\ policy0 = policy
    /\ clean \in BOOLEAN
    /\ noop \in BOOLEAN
    /\ fetched = <<>>
    /\ cursor = 0
    /\ archives = <<>>
    /\ newrules = <<>>
    /\ prevRules = <<>>
    /\ putCalls = 0
    /\ lpc = "list"
    /\ lerr = "none"
    /\ lrun = 1

\* ------------------------------------------------------------------------
\* Lifecycle reconciler: actions
\* ------------------------------------------------------------------------
\* one list_objects_v2 response that carries NextContinuationToken
FetchPageWithToken ==
    /\ lpc = "list"
    /\ \E k \in 1..(Len(Listing(keys)) - cursor - 1) :
          /\ fetched' = Append(fetched,
                               SubSeq(Listing(keys), cursor + 1, cursor + k))
          /\ cursor' = cursor + k
    /\ UNCHANGED <<keys, policy, policy0, clean, noop, archives, newrules,
                   prevRules, putCalls, lpc, lerr, lrun>>
    /\ UNCHANGED certvars

\* the response without a token: the recursion unwinds and returns
FetchLastPage ==
    /\ lpc = "list"
    /\ fetched' = Append(fetched,
                         SubSeq(Listing(keys), cursor + 1, Len(Listing(keys))))
    /\ cursor' = Len(Listing(keys))
    /\ archives' = ArchivesOfPages(fetched')
    /\ lpc' = "update"
    /\ UNCHANGED <<keys, policy, policy0, clean, noop, newrules, prevRules,
                   putCalls, lerr, lrun>>
    /\ UNCHANGED certvars

\* a response that has no CommonPrefixes entry: objects['CommonPrefixes']
\* raises KeyError
FetchNoCommonPrefixes ==
    /\ lpc = "list"
    /\ cursor = Len(Listing(keys))
    /\ lpc' = "aborted"
    /\ lerr' = "KeyError"
    /\ UNCHANGED <<keys, policy, policy0, clean, noop, fetched, cursor,
                   archives, newrules, prevRules, putCalls, lrun>>
    /\ UNCHANGED certvars

\* list_objects_v2 raises: logged and re-raised
FetchFail ==
    /\ lpc = "list"
    /\ lpc' = "aborted"
    /\ lerr' = "ApiError"
    /\ UNCHANGED <<keys, policy, policy0, clean, noop, fetched, cursor,
                   archives, newrules, prevRules, putCalls, lrun>>
    /\ UNCHANGED certvars

\* loading lifecycle.rules raises
LoadRulesFail ==
    /\ lpc = "update"
    /\ lpc' = "aborted"
    /\ lerr' = "ApiError"
    /\ UNCHANGED <<keys, policy, policy0, clean, noop, fetched, cursor,
                   archives, newrules, prevRules, putCalls, lrun>>
    /\ UNCHANGED certvars

RebuildOk ==
    /\ lpc = "update"
    /\ LifecycleRules(policy, archives, clean).error = "none"
    /\ newrules' = LifecycleRules(policy, archives, clean).rules
    /\ lpc' = "put"
    /\ UNCHANGED <<keys, policy, policy0, clean, noop, fetched, cursor,
                   archives, prevRules, putCalls, lerr, lrun>>
    /\ UNCHANGED certvars

RebuildRaise ==
    /\ lpc = "update"
    /\ LifecycleRules(policy, archives, clean).error # "none"
    /\ lerr' = LifecycleRules(policy, archives, clean).error
    /\ lpc' = "aborted"
    /\ UNCHANGED <<keys, policy, policy0, clean, noop, fetched, cursor,
                   archives, newrules, prevRules, putCalls, lrun>>
    /\ UNCHANGED certvars

PutOk ==
    /\ lpc = "put"
    /\ PutIsCalled(noop)
    /\ policy' = newrules
    /\ putCalls' = putCalls + 1
    /\ lpc' = "done"
    /\ UNCHANGED <<keys, policy0, clean, noop, fetched, cursor, archives,
                   newrules, prevRules, lerr, lrun>>
    /\ UNCHANGED certvars

PutFail ==
    /\ lpc = "put"
    /\ PutIsCalled(noop)
    /\ putCalls' = putCalls + 1
    /\ lpc' = "aborted"
    /\ lerr' = "ApiError"
    /\ UNCHANGED <<keys, policy, policy0, clean, noop, fetched, cursor,
                   archives, newrules, prevRules, lrun>>
    /\ UNCHANGED certvars

NoopReturn ==
    /\ lpc = "put"
    /\ ~PutIsCalled(noop)
    /\ lpc' = "done"
    /\ UNCHANGED <<keys, policy, policy0, clean, noop, fetched, cursor,
                   archives, newrules, prevRules, putCalls, lerr, lrun>>
    /\ UNCHANGED certvars

\* the script is started again on the same bucket with the same arguments
UpdateAgain ==
    /\ lpc = "done"
    /\ lrun = 1
    /\ lrun' = 2
    /\ lpc' = "list"
    /\ fetched' = <<>>
    /\ cursor' = 0
    /\ archives' = <<>>
    /\ prevRules' = newrules
    /\ newrules' = <<>>
    /\ putCalls' = 0
    /\ policy0' = policy
    /\ UNCHANGED <<keys, policy, clean, noop, lerr>>
    /\ UNCHANGED certvars

\* ------------------------------------------------------------------------
\* Specifications: each script runs alone
\* ------------------------------------------------------------------------
CertIdle ==
    /\ remote = EmptyMap
    /\ remote0 = EmptyMap
    /\ certnames = <<>>
    /\ localExp = [n \in AllNames |-> 0]
    /\ days = 0
    /\ force = FALSE
    /\ now = 0
    /\ expires = EmptyMap
    /\ marker = FALSE
    /\ cpc = "idle"
    /\ idx = 0
    /\ calls = <<>>
    /\ prevCalls = <<>>
    /\ err = "none"
    /\ run = 1

LifeIdle ==
    /\ keys = {}
    /\ policy = <<>>
    /\ policy0 = <<>>
    /\ clean = FALSE
    /\ noop = FALSE
    /\ fetched = <<>>
    /\ cursor = 0
    /\ archives = <<>>
    /\ newrules = <<>>
    /\ prevRules = <<>>
    /\ putCalls = 0
    /\ lpc = "idle"
    /\ lerr = "none"
    /\ lrun = 1

LifeNext ==
    \/ FetchPageWithToken
    \/ FetchLastPage
    \/ FetchNoCommonPrefixes
    \/ FetchFail
    \/ LoadRulesFail
    \/ RebuildOk
    \/ RebuildRaise
    \/ PutOk
    \/ PutFail
    \/ NoopReturn
    \/ UpdateAgain

CertStart == LifeIdle /\ CertInit

SpecCert == CertStart /\ [][CertNext]_vars

LifeStart == CertIdle /\ LifeInit

SpecLife == LifeStart /\ [][LifeNext]_vars

\* ------------------------------------------------------------------------
\* Certificate synchronizer: properties
\* ------------------------------------------------------------------------
CallsFor(n) == SelectSeq(calls, LAMBDA c : c.name = n)
Replaced(n) == <<Call("delete", n, TRUE), Call("upload", n, TRUE)>>
Processed(i) == idx > i
AbortedAt(i) == cpc = "aborted" /\ idx = i

\* C1 as stated: a name of the remote map with expiration - now < window is
\* deleted and then uploaded; with expiration - now >= window and no force
\* flag neither call is made, the boundary expiration - now = window included.
C1_StrictWindow ==
    \A i \in 1..Len(certnames) :
        LET n == certnames[i] IN
        (expires[n] # NoCert /\ Processed(i)) =>
            /\ (expires[n] - now < days) => CallsFor(n) = Replaced(n)
            /\ (expires[n] - now >= days /\ ~force) => CallsFor(n) = <<>>

\* C1 amended: a name of the remote map with expiration - now <= window is
\* deleted and, when the delete succeeded, then uploaded; with
\* expiration - now > window and no force flag neither call is made.
C1_InclusiveWindow ==
    \A i \in 1..Len(certnames) :
        LET n == certnames[i] IN
        expires[n] # NoCert =>
            /\ (expires[n] - now <= days /\ Processed(i)) =>
                   CallsFor(n) = Replaced(n)
            /\ (expires[n] - now <= days /\ AbortedAt(i)) =>
                   CallsFor(n) \in {<<Call("delete", n, FALSE)>>,
                                    <<Call("delete", n, TRUE),
                                      Call("upload", n, FALSE)>>}
            /\ (expires[n] - now > days /\ ~force) => CallsFor(n) = <<>>

C1_Witness ==
    /\ cpc = "done"
    /\ ~force
    /\ \E n \in Range(certnames) :
          /\ expires[n] # NoCert
          /\ expires[n] - now = days
          /\ CallsFor(n) = Replaced(n)
    /\ \E m \in Range(certnames) :
          /\ expires[m] # NoCert
          /\ expires[m] - now > days
          /\ CallsFor(m) = <<>>

\* C2: a local name that is absent from the remote map is never deleted and
\* is uploaded at most once; when the run completes without a failed call it
\* has been uploaded exactly once.
C2_AbsentUploadedOnce ==
    \A n \in Range(certnames) :
        expires[n] = NoCert =>
            /\ \A k \in 1..Len(calls) :
                  calls[k].name = n => calls[k].op = "upload"
            /\ Len(CallsFor(n)) <= 1
            /\ cpc = "done" => CallsFor(n) = <<Call("upload", n, TRUE)>>

C2_Witness ==
    /\ cpc = "done"
    /\ force
    /\ \E n \in Range(certnames) :
          /\ expires[n] = NoCert
          /\ CallsFor(n) = <<Call("upload", n, TRUE)>>
    /\ \E m \in Range(certnames) : CallsFor(m) = Replaced(m)

\* C3: when the listing response carries a Marker, certificate_expirations
\* completes without error and returns the map of every remote certificate.
C3_PaginatedListingMerged ==
    marker => (err = "none" /\ cpc # "aborted" /\ expires = remote0)

\* C7 as stated: the run that follows a completed run makes no delete and no
\* upload call and leaves the remote store as it found it.
C7_SecondRunSilent ==
    run = 2 => (calls = <<>> /\ remote = remote0)

\* C7 amended: when the force flag is not set and every local certificate
\* expires more than window after now, the run that follows a completed run
\* makes no delete and no upload call and leaves the remote store unchanged.
C7_SecondRunSilentOutsideWindow ==
    (/\ run = 2
     /\ ~force
     /\ \A n \in Range(certnames) : localExp[n] - now > days)
    => (calls = <<>> /\ remote = remote0)

C7_Witness ==
    /\ run = 2
    /\ cpc = "done"
    /\ ~force
    /\ \A n \in Range(certnames) : localExp[n] - now > days
    /\ Len(prevCalls) >= 3
    /\ calls = <<>>

\* C9: a failed call is the last call of its run and the run is over; a
\* failed listing leaves no call at all; after a failed delete the store
\* still holds what it held for that name and for every name not yet reached.
C9_FirstFailureAborts ==
    /\ \A k \in 1..(Len(calls) - 1) : calls[k].ok
    /\ (err # "none") <=> (cpc = "aborted")
    /\ (cpc = "aborted" /\ idx = 0) => (calls = <<>> /\ remote = remote0)
    /\ (Len(calls) > 0 /\ calls[Len(calls)] = Call("delete", calls[Len(calls)].name, FALSE))
          => /\ calls[Len(calls)].name = certnames[idx]
             /\ \A j \in idx..Len(certnames) :
                   remote[certnames[j]] = remote0[certnames[j]]

C9_Witness ==
    /\ cpc = "aborted"
    /\ Len(calls) = 3
    /\ calls[3] = Call("delete", certnames[2], FALSE)
    /\ remote[certnames[2]] # NoCert
    /\ remote[certnames[1]] # remote0[certnames[1]]

\* ------------------------------------------------------------------------
\* Lifecycle reconciler: properties
\* ------------------------------------------------------------------------
Rebuilt == lpc \in {"put", "done"}
InSeq(x, q) == \E i \in 1..Len(q) : q[i] = x
Foreign(r) == ~StartsWith(r.ID, LifecycleIdPrefix)

\* C4: the second run, started on the policy the first run wrote with the
\* same bucket listing and arguments, computes and writes the same rules in
\* the same order.
C4_SecondRunSameRules ==
    (lrun = 2 /\ ~noop) =>
        /\ Rebuilt => newrules = prevRules
        /\ lpc = "done" => policy = policy0

C4_Witness ==
    /\ lrun = 2
    /\ lpc = "done"
    /\ ~noop
    /\ putCalls = 1
    /\ Len(newrules) >= 3
    /\ \E i, j \in 1..Len(newrules) :
          /\ newrules[i].ID = <<"m">>
          /\ newrules[j] = SynthRule(<<"d", "/", "x", "/", "a", "/">>)

\* C5: an existing rule with a foreign identifier whose filter prefix matches
\* the archive pattern is in the rebuilt rules exactly when clean is false;
\* one whose filter prefix does not match is always in them, unmodified.
C5_ForeignRules ==
    Rebuilt =>
        \A i \in 1..Len(policy0) :
            LET r == policy0[i] IN
            Foreign(r) =>
                /\ Matches(r.Prefix) => (InSeq(r, newrules) <=> ~clean)
                /\ ~Matches(r.Prefix) => InSeq(r, newrules)

C5_Witness ==
    /\ lpc = "done"
    /\ clean
    /\ policy0 = << Rule(<<"m">>, <<"d", "/", "x", "/", "a", "/">>, 30),
                    Rule(<<"u">>, <<"o", "/">>, 30) >>
    /\ InSeq(Rule(<<"u">>, <<"o", "/">>, 30), newrules)
    /\ \A i \in 1..Len(newrules) : newrules[i].ID # <<"m">>
    /\ Len(newrules) = 3

\* C6: the rebuilt rules are the preserved existing rules plus exactly one
\* synthesized rule per discovered archive prefix, and no two of them have
\* the same identifier.
C6_OneRulePerArchiveUniqueIds ==
    Rebuilt =>
        /\ \A k \in 1..Len(archives) :
              Cardinality({i \in 1..Len(newrules) :
                              /\ ~Foreign(newrules[i])
                              /\ newrules[i].Prefix = archives[k].val}) = 1
        /\ \A i \in 1..Len(policy0) :
              KeepRule(policy0[i], clean) => InSeq(policy0[i], newrules)
        /\ Len(newrules) = Len(PreservedRules(policy0, clean)) + Len(archives)
        /\ \A i, j \in 1..Len(newrules) :
              i # j => newrules[i].ID # newrules[j].ID

\* C8: in no-op mode lifecycle.put is never called and the stored policy
\* stays what it was, while the rule set is still computed and returned.
C8_NoopLeavesPolicy ==
    noop =>
        /\ putCalls = 0
        /\ policy = policy0
        /\ lpc = "done" =>
              newrules = LifecycleRules(policy0, archives, clean).rules

C8_Witness ==
    /\ noop
    /\ lpc = "done"
    /\ Len(newrules) >= 2
    /\ newrules # policy
    /\ policy = policy0

\* C10: when the listing took several pages, archives_in_bucket returns the
\* flat sequence of all common prefixes and lifecycle_update does not raise
\* on an element of it that is no string.
C10_PaginatedArchivesFlat ==
    (Len(fetched) > 1 /\ cursor = Len(Listing(keys)) /\ lpc # "list") =>
        /\ Len(archives) = Len(Listing(keys))
        /\ \A i \in 1..Len(archives) : archives[i].kind = "str"
        /\ lerr # "TypeError"

====
